---- MODULE Spec2Model ----
(***************************************************************************)
(* Model of the recommendation-network simulation: src/model.py (CC, User, *)
(* Network, Platform) and the driver src/simulation.py (Simulation).       *)
(*                                                                         *)
(* Python objects become records and functions: the Network object is the  *)
(* record `network`, the Platform's attributes are variables of their own, *)
(* the Simulation's attributes are the record `sim`.  numpy float vectors  *)
(* of probabilities are vectors of exact rationals <<numerator,            *)
(* denominator>>; a denominator 0 stands for numpy's inf/nan.  The random  *)
(* generator gen.choice(c_ids, num_users, p=probs) is a nondeterministic   *)
(* choice among the vectors whose entries have nonzero probability.        *)
(***************************************************************************)
EXTENDS Integers, Sequences, FiniteSets, TLC

(***************************************************************************)
(* Bounds of the model.                                                    *)
(***************************************************************************)
\* num_users + num_CCs is at most MaxSize
MaxSize == 5
MaxSteps == 2
MaxFollows == 1
MaxEvolution == 2

\* The bias exponents tried: numpy takes floats, the model takes integers.
\* The runs of the whole program use one mixture of two exponents; the claims
\* about the distribution itself are checked over AlphaLists.
TheAlphas == <<-1, 2>>

AlphaLists == {<<0>>, <<1>>, <<2>>, <<-1>>, <<0, 1>>, <<-1, 2>>}

\* The numbers of simulations tried: each one runs on a Platform of its own.
SimulationCounts == {1}

\* The step budgets tried: 0 (none: run until convergence) and MaxSteps.
StepBudgets == {0, MaxSteps}

\* The evolution intervals tried: 0 (no snapshots) up to MaxEvolution.
EvolutionIntervals == 0 .. MaxEvolution

\* Python's None (User.best_followed_CC, src/model.py:22).
None == -1

\* The sentinel of users_found_best (src/model.py:98).
NotFound == -1

VARIABLES
    \* Platform (src/model.py:84-108)
    num_users, num_CCs, alphas, evolution,
    network, users_found_best, id_searching_users, timestep, evolutionary_data,
    \* the entries of the last recommend() that iterate() read (line 125), and the
    \* exception that ended the run
    recs, raised,
    \* Simulation (src/simulation.py): attributes, and the locals of simulate()
    sim, pc, i, step, num_iterations, did_converge, results,
    \* a second Platform, built with the same parameters as the first and fed the
    \* same recommendations
    twin

platformVars == <<num_users, num_CCs, alphas, evolution, network, users_found_best,
                  id_searching_users, timestep, evolutionary_data, recs>>
simVars == <<sim, pc, i, step, num_iterations, did_converge, results>>
vars == <<platformVars, raised, simVars, twin>>

Users == 0 .. (num_users - 1)
CCs == 0 .. (num_CCs - 1)

EmptyMap == [x \in {} |-> 0]

Range(s) == {s[k] : k \in 1 .. Len(s)}

(***************************************************************************)
(* Exact rationals for numpy's float vectors of weights and probabilities. *)
(* The arithmetic is written as functions: their arguments are values.     *)
(***************************************************************************)
Abs(x) == IF x < 0 THEN -x ELSE x

GCD[a \in Nat, b \in Nat] == IF b = 0 THEN a ELSE GCD[b, a % b]

\* <<0, 0>> is a value that is not finite (numpy's inf or nan).
NotFinite == <<0, 0>>

Rational == Int \X Int

Rat[n \in Int, d \in Int] ==
    IF d = 0 THEN NotFinite
    ELSE LET g == GCD[Abs(n), Abs(d)]
             s == IF d < 0 THEN -1 ELSE 1
         IN <<(s * n) \div g, (s * d) \div g>>

IsFinite(x) == x[2] # 0
RAdd[x \in Rational, y \in Rational] == Rat[x[1] * y[2] + y[1] * x[2], x[2] * y[2]]
RDiv[x \in Rational, y \in Rational] == Rat[x[1] * y[2], x[2] * y[1]]
RPositive(x) == IsFinite(x) /\ x[1] > 0
RNegative(x) == IsFinite(x) /\ x[1] < 0

IntPow[b \in Int, e \in Nat] == IF e = 0 THEN 1 ELSE b * IntPow[b, e - 1]

\* np.power(base, alpha) for a non-negative base and an integer exponent.
Power[b \in Int, a \in Int] == IF a >= 0 THEN Rat[IntPow[b, a], 1] ELSE Rat[1, IntPow[b, -a]]

\* A numpy vector of length n is the tuple of its entries: entry c is v[c + 1].
\* sum(v) of a vector.
RSum[v \in Seq(Rational)] == IF v = <<>> THEN Rat[0, 1] ELSE RAdd[v[1], RSum[Tail(v)]]

(***************************************************************************)
(* User and Network (src/model.py:14-76).                                  *)
(***************************************************************************)
\* A decision rule that takes the worse creators.
decide_follow_worse(best, c_id) == (best = None) \/ (best < c_id)

\* User.decide_follow: best is the id of best_followed_CC, or None.
decide_follow(best, c_id) == (best = None) \/ (best > c_id)

\* Network.is_following: c.id in self.adjacency_list[u.id]
is_following(net, u_id, c_id) == c_id \in Range(net.adjacency_list[u_id])

\* self.num_followees[u.id] <= self.max_follows, max_follows possibly np.inf
within_max_follows(net, u_id) ==
    net.max_follows.inf \/ net.num_followees[u_id] <= net.max_follows.val

\* A Network that takes max_follows = 0 for a cap of 0, not for np.inf.
NewNetwork_zero_cap(u_ids, c_ids, max_follows) ==
    [ best_followed_CC |-> [u \in u_ids |-> None],
      num_followers    |-> [c \in c_ids |-> 0],
      num_followees    |-> [u \in u_ids |-> 0],
      adjacency_list   |-> [u \in u_ids |-> <<>>],
      max_follows      |-> [inf |-> FALSE, val |-> max_follows] ]

\* Network.__init__
NewNetwork(u_ids, c_ids, max_follows) ==
    [ best_followed_CC |-> [u \in u_ids |-> None],
      num_followers    |-> [c \in c_ids |-> 0],
      num_followees    |-> [u \in u_ids |-> 0],
      adjacency_list   |-> [u \in u_ids |-> <<>>],
      max_follows      |-> [inf |-> (max_follows = 0), val |-> max_follows] ]

\* A follow that forgets to count the follower.
follow_uncounted(net, u_id, c_id) ==
    IF ~is_following(net, u_id, c_id)
       /\ decide_follow(net.best_followed_CC[u_id], c_id)
       /\ within_max_follows(net, u_id)
    THEN [net EXCEPT !.adjacency_list[u_id] = Append(@, c_id),
                     !.num_followees[u_id] = @ + 1,
                     !.best_followed_CC[u_id] = c_id]
    ELSE net

\* A follow that records the edge whenever the cap allows it.
follow_unguarded(net, u_id, c_id) ==
    IF within_max_follows(net, u_id)
    THEN [net EXCEPT !.adjacency_list[u_id] = Append(@, c_id),
                     !.num_followers[c_id] = @ + 1,
                     !.num_followees[u_id] = @ + 1,
                     !.best_followed_CC[u_id] = c_id]
    ELSE net

\* A follow that sets best_followed_CC only while it is None.
follow_first_best(net, u_id, c_id) ==
    IF ~is_following(net, u_id, c_id)
       /\ decide_follow(net.best_followed_CC[u_id], c_id)
       /\ within_max_follows(net, u_id)
    THEN [net EXCEPT !.adjacency_list[u_id] = Append(@, c_id),
                     !.num_followers[c_id] = @ + 1,
                     !.num_followees[u_id] = @ + 1,
                     !.best_followed_CC[u_id] = IF @ = None THEN c_id ELSE @]
    ELSE net

\* A follow that records the new best creator before it tests the cap.
follow_best_before_cap(net, u_id, c_id) ==
    IF ~is_following(net, u_id, c_id)
       /\ decide_follow(net.best_followed_CC[u_id], c_id)
    THEN IF within_max_follows(net, u_id)
         THEN [net EXCEPT !.adjacency_list[u_id] = Append(@, c_id),
                          !.num_followers[c_id] = @ + 1,
                          !.num_followees[u_id] = @ + 1,
                          !.best_followed_CC[u_id] = c_id]
         ELSE [net EXCEPT !.best_followed_CC[u_id] = c_id]
    ELSE net

\* Network.follow
follow(net, u_id, c_id) ==
    IF ~is_following(net, u_id, c_id)
       /\ decide_follow(net.best_followed_CC[u_id], c_id)
       /\ within_max_follows(net, u_id)
    THEN [net EXCEPT !.adjacency_list[u_id] = Append(@, c_id),
                     !.num_followers[c_id] = @ + 1,
                     !.num_followees[u_id] = @ + 1,
                     !.best_followed_CC[u_id] = c_id]
    ELSE net

(***************************************************************************)
(* Platform (src/model.py:79-164).                                         *)
(***************************************************************************)
\* Platform.__init__: the attributes of a new Platform.
NewPlatform(nu, nc, al, ev, mf) ==
    [ num_users          |-> nu,
      num_CCs            |-> nc,
      alphas             |-> al,
      evolution          |-> ev,
      network            |-> NewNetwork(0 .. (nu - 1), 0 .. (nc - 1), mf),
      users_found_best   |-> [u \in 0 .. (nu - 1) |-> NotFound],
      id_searching_users |-> [k \in 1 .. nu |-> k - 1],
      timestep           |-> 0,
      evolutionary_data  |-> EmptyMap ]

\* self.num_alphas
num_alphas == Len(alphas)

\* A weight without the smoothing.
Weight_unsmoothed(n, alpha) == Power[n, alpha]

\* A weight that multiplies by the exponent instead of raising to it.
Weight_multiplied(n, alpha) == Rat[(n + 1) * alpha, 1]

\* recommend(), line 154: np.power(num_followers + 1, alpha), one weight per creator
Weight(n, alpha) == Power[n + 1, alpha]

\* recommend(), lines 154-155: the normalised weights for one alpha
ProbChoice(alpha) ==
    LET w == [k \in 1 .. num_CCs |-> Weight(network.num_followers[k - 1], alpha)]
        total == RSum[w]
    IN [k \in 1 .. num_CCs |-> RDiv[w[k], total]]

\* recommend(), lines 152-156: the array probs after the first k alphas
RECURSIVE ProbsAfter(_)
ProbsAfter(k) ==
    IF k = 0 THEN [c \in 1 .. num_CCs |-> Rat[0, 1]]
    ELSE LET before == ProbsAfter(k - 1)
             pc_k == ProbChoice(alphas[k])
         IN [c \in 1 .. num_CCs |->
                RAdd[before[c], RDiv[pc_k[c], Rat[num_alphas, 1]]]]

\* recommend(): the distribution handed to gen.choice
Probs == ProbsAfter(num_alphas)

\* A snapshot that stores a copy of the array before the last alpha is added.
SnapshotProbs_before_add(final_probs) == ProbsAfter(num_alphas - 1)

\* The array the entry evolutionary_data[timestep]['probs'] refers to once
\* recommend() returns: line 158 stores the array object probs itself, which
\* line 156 goes on updating in place, so it ends as the array handed to gen.choice.
SnapshotProbs(final_probs) == final_probs

\* gen.choice(self.c_ids, self.num_users, p=probs) raises ValueError: no creator
\* to choose from, a probability that is nan or negative, or a sum that is not 1.
ChoiceRaises(p) ==
    \/ num_CCs = 0
    \/ \E c \in CCs : ~IsFinite(p[c + 1]) \/ RNegative(p[c + 1])
    \/ RSum[p] # Rat[1, 1]

\* gen.choice: the vectors it can return, one creator per user.  iterate() reads
\* the entries of the searching users only (lines 124-125): the model draws those.
ChoiceOutcomes(p) == [Range(id_searching_users) -> {c \in CCs : RPositive(p[c + 1])}]

\* A loop that calls follow() only in the else branch of the test c_id == 0.
RECURSIVE FollowAll_unless_best(_, _, _)
FollowAll_unless_best(net, searching, r) ==
    IF searching = <<>> THEN net
    ELSE FollowAll_unless_best(
             IF r[Head(searching)] = 0 THEN net
             ELSE follow(net, Head(searching), r[Head(searching)]),
             Tail(searching), r)

\* iterate(), lines 124-126: the follows of the searching users, in list order
RECURSIVE FollowAll(_, _, _)
FollowAll(net, searching, r) ==
    IF searching = <<>> THEN net
    ELSE FollowAll(follow(net, Head(searching), r[Head(searching)]), Tail(searching), r)

\* A search that ends only when the edge to creator 0 is recorded.
FoundAfter_if_followed(found, searching, r, t) ==
    [u \in DOMAIN found |->
        IF /\ u \in Range(searching)
           /\ r[u] = 0
           /\ is_following(FollowAll(network, searching, r), u, 0)
        THEN t ELSE found[u]]

\* A record of the timestep as it was before line 118 incremented it.
FoundAfter_before_increment(found, searching, r, t) ==
    [u \in DOMAIN found |->
        IF u \in Range(searching) /\ r[u] = 0 THEN t - 1 ELSE found[u]]

\* iterate(), lines 127-128: users_found_best after the loop over searching users
FoundAfter(found, searching, r, t) ==
    [u \in DOMAIN found |->
        IF u \in Range(searching) /\ r[u] = 0 THEN t ELSE found[u]]

\* A filter that keeps the users who are done.
update_searching_users_inverted(found, searching) ==
    SelectSeq(searching, LAMBDA u : found[u] # NotFound)

\* A filter whose result is dropped: the list stays as it was.
update_searching_users_dropped(found, searching) == searching

\* A list recomputed from the users who do not follow creator 0.
update_searching_users_by_best(found, searching) ==
    SelectSeq([k \in 1 .. num_users |-> k - 1],
              LAMBDA u : network.best_followed_CC[u] # 0)

\* Platform.update_searching_users
update_searching_users(found, searching) ==
    SelectSeq(searching, LAMBDA u : found[u] = NotFound)

\* Platform.check_convergence
check_convergence == Len(id_searching_users) = 0

\* A schedule that reads the timestep before it is incremented.
IsSnapshotStep_before(t) == evolution # 0 /\ (t - 1) % evolution = 0

\* iterate() line 132 / recommend() line 157: the timestep t is snapshotted
IsSnapshotStep(t) == evolution # 0 /\ t % evolution = 0

\* The model stops counting timesteps at MaxSteps, except for a call in which a
\* searching user is recommended creator 0 (there are at most num_users of those).
StepAllowed(r) ==
    timestep < MaxSteps \/ \E u \in Range(id_searching_users) : r[u] = 0

\* An iterate() whose follows use a draw of another generator than the seeded
\* one: the vector the seeded generator returns is not the one that is followed.
iterate_unseeded ==
    /\ raised = "none"
    /\ timestep' = timestep + 1
    /\ UNCHANGED <<num_users, num_CCs, alphas, evolution>>
    /\ \E t \in {timestep + 1}, p \in {Probs} :
       \* recommend(), lines 157-158
       \E ed1 \in { IF IsSnapshotStep(t) /\ alphas # <<>>
                    THEN (t :> [probs |-> SnapshotProbs(p)]) @@ evolutionary_data
                    ELSE evolutionary_data } :
          IF ChoiceRaises(p)
          THEN /\ timestep < MaxSteps
               /\ raised' = "ValueError"
               /\ evolutionary_data' = ed1
               /\ UNCHANGED <<network, users_found_best, id_searching_users, recs>>
          ELSE \E r \in ChoiceOutcomes(p) :
               /\ StepAllowed(r)
               /\ \E net \in {FollowAll(network, id_searching_users, r)},
                     found \in {FoundAfter(users_found_best, id_searching_users, r, t)} :
                  LET \* line 135 reads u.best_followed_CC.id of every user
                      unset == \E u \in Users : net.best_followed_CC[u] = None
                      counts == [num_followers |-> net.num_followers,
                                 num_followees |-> net.num_followees]
                      sats == [user_satisfactions |-> net.best_followed_CC]
                  IN /\ recs' \in ChoiceOutcomes(p)
                     /\ network' = net
                     /\ users_found_best' = found
                     /\ id_searching_users' = update_searching_users(found, id_searching_users)
                     /\ IF ~IsSnapshotStep(t)
                        THEN evolutionary_data' = ed1 /\ raised' = "none"
                        ELSE IF t \notin DOMAIN ed1
                        THEN evolutionary_data' = ed1 /\ raised' = "KeyError"
                        ELSE IF unset
                        THEN /\ evolutionary_data' = (t :> (ed1[t] @@ counts)) @@ ed1
                             /\ raised' = "AttributeError"
                        ELSE /\ evolutionary_data' = (t :> (ed1[t] @@ counts @@ sats)) @@ ed1
                             /\ raised' = "none"

\* Platform.iterate, with the recommend() and update_searching_users() it calls.
\* Its return value is check_convergence in the state it leaves.
\* (\E x \in {e} names the value of e.)
iterate ==
    /\ raised = "none"
    /\ timestep' = timestep + 1
    /\ UNCHANGED <<num_users, num_CCs, alphas, evolution>>
    /\ \E t \in {timestep + 1}, p \in {Probs} :
       \* recommend(), lines 157-158
       \E ed1 \in { IF IsSnapshotStep(t) /\ alphas # <<>>
                    THEN (t :> [probs |-> SnapshotProbs(p)]) @@ evolutionary_data
                    ELSE evolutionary_data } :
          IF ChoiceRaises(p)
          THEN /\ timestep < MaxSteps
               /\ raised' = "ValueError"
               /\ evolutionary_data' = ed1
               /\ UNCHANGED <<network, users_found_best, id_searching_users, recs>>
          ELSE \E r \in ChoiceOutcomes(p) :
               /\ StepAllowed(r)
               /\ \E net \in {FollowAll(network, id_searching_users, r)},
                     found \in {FoundAfter(users_found_best, id_searching_users, r, t)} :
                  LET \* line 135 reads u.best_followed_CC.id of every user
                      unset == \E u \in Users : net.best_followed_CC[u] = None
                      counts == [num_followers |-> net.num_followers,
                                 num_followees |-> net.num_followees]
                      sats == [user_satisfactions |-> net.best_followed_CC]
                  IN /\ recs' = r
                     /\ network' = net
                     /\ users_found_best' = found
                     /\ id_searching_users' = update_searching_users(found, id_searching_users)
                     /\ IF ~IsSnapshotStep(t)
                        THEN evolutionary_data' = ed1 /\ raised' = "none"
                        ELSE IF t \notin DOMAIN ed1
                        THEN evolutionary_data' = ed1 /\ raised' = "KeyError"
                        ELSE IF unset
                        THEN /\ evolutionary_data' = (t :> (ed1[t] @@ counts)) @@ ed1
                             /\ raised' = "AttributeError"
                        ELSE /\ evolutionary_data' = (t :> (ed1[t] @@ counts @@ sats)) @@ ed1
                             /\ raised' = "none"

\* iterate(), lines 118-130, on the Platform state P with the vector r returned by
\* recommend(): the state it leaves when no snapshot is due.
IterateOn(P, r) ==
    LET t == P.timestep + 1
        net == FollowAll(P.network, P.id_searching_users, r)
        found == FoundAfter(P.users_found_best, P.id_searching_users, r, t)
    IN [ network            |-> net,
         users_found_best   |-> found,
         id_searching_users |-> update_searching_users(found, P.id_searching_users),
         timestep           |-> t ]

(***************************************************************************)
(* Simulation (src/simulation.py).                                         *)
(***************************************************************************)
\* Simulation.__init__: the attributes; num_steps = 0 stands for None or 0,
\* which line 50 treats alike (run until convergence).
NewSimulation(ns, nc, nu, al, steps, ev, mf) ==
    [ num_simulations |-> ns, num_CCs |-> nc, num_users |-> nu, alphas |-> al,
      num_steps |-> steps, evolution |-> ev, max_follows |-> mf ]

\* Parameters within the construction contract of the Platform: at least one
\* user, one creator and one alpha, and a cap that is not negative.
ValidSimulations ==
    { NewSimulation(ns, nc, nu, TheAlphas, steps, ev, mf) :
        ns \in SimulationCounts, nc \in 1 .. MaxSize - 1, nu \in 1 .. MaxSize - 1,
        steps \in StepBudgets, ev \in EvolutionIntervals, mf \in 0 .. MaxFollows }

\* Any parameters: neither constructor checks them.
AnySimulations ==
    { NewSimulation(ns, nc, nu, al, steps, ev, mf) :
        ns \in SimulationCounts, nc \in 0 .. MaxSize, nu \in 0 .. MaxSize,
        al \in {TheAlphas, <<>>}, steps \in StepBudgets, ev \in EvolutionIntervals,
        mf \in -1 .. MaxFollows }

\* Runs until convergence (num_steps is None), over every list of alphas.
UnboundedSimulations ==
    { NewSimulation(ns, nc, nu, al, 0, 0, mf) :
        ns \in SimulationCounts, nc \in 1 .. MaxSize - 1, nu \in 1 .. MaxSize - 1,
        al \in AlphaLists, mf \in 0 .. MaxFollows }

\* The variables of the Platform hold the attributes of the record P.
PlatformIs(P) ==
    /\ num_users = P.num_users
    /\ num_CCs = P.num_CCs
    /\ alphas = P.alphas
    /\ evolution = P.evolution
    /\ network = P.network
    /\ users_found_best = P.users_found_best
    /\ id_searching_users = P.id_searching_users
    /\ timestep = P.timestep
    /\ evolutionary_data = P.evolutionary_data

\* Before simulate() builds its first Platform there is none: the variables of
\* the Platform hold an empty one.
NoPlatform == NewPlatform(0, 0, <<>>, 0, 0)

\* The part of a Platform that iterate() reads and writes when no snapshot is
\* taken: the network, users_found_best, id_searching_users and the timestep.
PlatformState(P) ==
    [ network            |-> P.network,
      users_found_best   |-> P.users_found_best,
      id_searching_users |-> P.id_searching_users,
      timestep           |-> P.timestep ]

\* No second Platform.
NoTwin == PlatformState(NoPlatform)

InitSimulation(sims, size) ==
    /\ sim \in {x \in sims : x.num_users + x.num_CCs <= size}
    /\ PlatformIs(NoPlatform)
    /\ recs = EmptyMap
    /\ raised = "none"
    /\ pc = "construct"
    /\ i = 0
    /\ step = 0
    /\ num_iterations = 0
    /\ did_converge = FALSE
    /\ results = EmptyMap
    /\ twin = NoTwin

\* simulate(), lines 42-47: the next simulation starts with a new Platform
SimConstruct ==
    /\ raised = "none"
    /\ pc = "construct"
    /\ i < sim.num_simulations
    /\ LET P == NewPlatform(sim.num_users, sim.num_CCs, sim.alphas, sim.evolution,
                            sim.max_follows)
       IN /\ num_users' = P.num_users
          /\ num_CCs' = P.num_CCs
          /\ alphas' = P.alphas
          /\ evolution' = P.evolution
          /\ network' = P.network
          /\ users_found_best' = P.users_found_best
          /\ id_searching_users' = P.id_searching_users
          /\ timestep' = P.timestep
          /\ evolutionary_data' = P.evolutionary_data
    /\ num_iterations' = 0
    /\ did_converge' = FALSE
    /\ step' = 0
    /\ pc' = "loop"
    /\ UNCHANGED <<recs, raised, sim, i, results, twin>>

\* A budget loop that does not look at did_converge.
LoopContinues_whole_budget ==
    IF sim.num_steps # 0
    THEN step < sim.num_steps
    ELSE ~check_convergence

\* simulate(), lines 50-62: the loop goes on (with a budget: line 52 has steps
\* left and line 54 holds; without: line 60 holds)
LoopContinues ==
    IF sim.num_steps # 0
    THEN step < sim.num_steps /\ ~did_converge
    ELSE ~check_convergence

\* simulate(), lines 55-56 and 61-62: one pass of the loop calls p.iterate()
SimIterate ==
    /\ pc = "loop"
    /\ LoopContinues
    /\ iterate
    /\ num_iterations' = num_iterations + 1
    /\ step' = IF sim.num_steps # 0 THEN step + 1 ELSE step
    /\ did_converge' = IF sim.num_steps # 0 THEN (Len(id_searching_users') = 0)
                       ELSE did_converge
    /\ UNCHANGED <<sim, pc, i, results, twin>>

\* simulate(), lines 52, 58 and 60: the loop ends
SimLoopExit ==
    /\ raised = "none"
    /\ pc = "loop"
    /\ ~LoopContinues
    /\ pc' = "record"
    /\ UNCHANGED <<platformVars, raised, sim, i, step, num_iterations, did_converge, results,
                   twin>>

\* simulate(), lines 64-76: the statistics of the run; line 71 reads
\* u.best_followed_CC.id of every user
SimRecord ==
    /\ raised = "none"
    /\ pc = "record"
    /\ IF \E u \in Users : network.best_followed_CC[u] = None
       THEN /\ raised' = "AttributeError"
            /\ UNCHANGED <<pc, i, results>>
       ELSE LET data == [ timesteps |-> num_iterations,
                          num_followers |-> network.num_followers,
                          num_followees |-> network.num_followees,
                          num_timestep_users_found_best |-> users_found_best,
                          average_pos_best_CC |-> <<>>,
                          did_converge |-> check_convergence,
                          user_satisfaction |-> network.best_followed_CC ]
                ev == IF sim.evolution # 0
                      THEN [evolutionary_data |-> evolutionary_data] ELSE EmptyMap
            IN /\ results' = (i :> (data @@ ev)) @@ results
               /\ i' = i + 1
               /\ pc' = "construct"
               /\ raised' = "none"
    /\ UNCHANGED <<platformVars, sim, step, num_iterations, did_converge, twin>>

\* simulate(), line 78: every simulation is done
SimReturn ==
    /\ raised = "none"
    /\ pc = "construct"
    /\ i >= sim.num_simulations
    /\ pc' = "return"
    /\ UNCHANGED <<platformVars, raised, sim, i, step, num_iterations, did_converge, results,
                   twin>>

\* No Simulation: the Platform is called directly.
NoSimulation == NewSimulation(0, 0, 0, <<>>, 0, 0, 0)

\* A Platform built with parameters within its construction contract, and no driver.
\* (There is no second Platform.)
InitCalls(intervals) ==
    /\ \E nu \in 1 .. MaxSize - 1, nc \in 1 .. MaxSize - 1,
          ev \in intervals, mf \in 0 .. MaxFollows :
          /\ nu + nc <= MaxSize
          /\ PlatformIs(NewPlatform(nu, nc, TheAlphas, ev, mf))
    /\ recs = EmptyMap
    /\ raised = "none"
    /\ sim = NoSimulation
    /\ pc = "api"
    /\ i = 0
    /\ step = 0
    /\ num_iterations = 0
    /\ did_converge = FALSE
    /\ results = EmptyMap
    /\ twin = NoTwin

\* A caller calls p.iterate()
CallIterate ==
    /\ pc = "api"
    /\ iterate
    /\ UNCHANGED <<simVars, twin>>

\* A caller calls p.network.follow(u_id, c_id)
CallFollow ==
    /\ pc = "api"
    /\ raised = "none"
    /\ \E u_id \in Users, c_id \in CCs : network' = follow(network, u_id, c_id)
    /\ UNCHANGED <<num_users, num_CCs, alphas, evolution, users_found_best,
                   id_searching_users, timestep, evolutionary_data, recs, raised, simVars,
                   twin>>

\* Two Platforms built with the same parameters, without snapshots, and no driver.
InitTwin ==
    /\ \E nu \in 1 .. MaxSize - 1, nc \in 1 .. MaxSize - 1,
          al \in AlphaLists, mf \in 0 .. MaxFollows :
          /\ nu + nc <= MaxSize
          /\ PlatformIs(NewPlatform(nu, nc, al, 0, mf))
          /\ twin = PlatformState(NewPlatform(nu, nc, al, 0, mf))
    /\ recs = EmptyMap
    /\ raised = "none"
    /\ sim = NoSimulation
    /\ pc = "api"
    /\ i = 0
    /\ step = 0
    /\ num_iterations = 0
    /\ did_converge = FALSE
    /\ results = EmptyMap

\* A caller calls iterate() of both Platforms, whose generators return the same
\* vector: recs' is the vector the first one followed.
TwinIterate ==
    /\ pc = "api"
    /\ iterate
    /\ twin' = IF raised' = "none" THEN IterateOn(twin, recs') ELSE twin
    /\ UNCHANGED simVars

\* Any sequence of calls of iterate().
InitPlatform == InitCalls(EvolutionIntervals)

NextPlatform == CallIterate

SpecPlatform == InitPlatform /\ [][NextPlatform]_vars

\* Any sequence of calls of iterate() and follow(), without snapshots.
InitNetwork == InitCalls({0})

NextNetwork == CallIterate \/ CallFollow

SpecNetwork == InitNetwork /\ [][NextNetwork]_vars

\* Any sequence of calls of iterate() on two Platforms in step.
NextTwin == TwinIterate

SpecTwin == InitTwin /\ [][NextTwin]_vars

\* The program: simulate() with parameters within the construction contract.
Init == InitSimulation(ValidSimulations, MaxSize)

Next == SimConstruct \/ SimIterate \/ SimLoopExit \/ SimRecord \/ SimReturn

Spec == Init /\ [][Next]_vars

\* The program with any parameters.
InitUnchecked == InitSimulation(AnySimulations, MaxSize)

SpecUnchecked == InitUnchecked /\ [][Next]_vars

\* The program running until convergence, on the populations one smaller than
\* MaxSize.  simulate() runs on once started, and the draw is fair: a pass of the
\* loop in which the searching user u is recommended creator 0 does not stay
\* possible for ever without happening.
InitUnbounded == InitSimulation(UnboundedSimulations, MaxSize - 1)

SimIterateRecommending0(u) ==
    u \in Range(id_searching_users) /\ SimIterate /\ recs'[u] = 0

SpecFair ==
    /\ InitUnbounded
    /\ [][Next]_vars
    /\ WF_vars(Next)
    /\ \A u \in 0 .. (MaxSize - 1) : WF_vars(SimIterateRecommending0(u))

(***************************************************************************)
(* The claims.                                                             *)
(***************************************************************************)

\* C1: with a cap max_follows = k > 0, no user ever follows more than k creators.
CapRespected ==
    network.max_follows.inf
    \/ \A u \in Users : network.num_followees[u] <= network.max_follows.val

\* C2: num_followers[c] is the number of users whose adjacency list contains c,
\* and num_followees[u] is the number of entries of adjacency_list[u].
AggregateConsistency ==
    /\ \A c \in CCs :
         network.num_followers[c]
           = Cardinality({u \in Users : c \in Range(network.adjacency_list[u])})
    /\ \A u \in Users : network.num_followees[u] = Len(network.adjacency_list[u])

AggregateWitness ==
    /\ \E c \in CCs : network.num_followers[c] >= 2
    /\ \E u \in Users : network.num_followees[u] >= 2

\* C3: once best_followed_CC of a user is set, no step unsets it or raises its
\* id: it changes only to a creator of strictly smaller id.
MonotonicRankImprovement ==
    [][\A u \in Users :
         network.best_followed_CC[u] # None =>
            /\ network'.best_followed_CC[u] # None
            /\ network'.best_followed_CC[u] <= network.best_followed_CC[u]]_vars

RankImprovedWitness ==
    \E u \in Users :
        /\ Len(network.adjacency_list[u]) >= 2
        /\ network.best_followed_CC[u] < network.adjacency_list[u][1]

\* C4: a second follow(u, c) changes nothing the first did not, and no adjacency
\* list holds the same creator twice.
IdempotentFollow ==
    /\ \A u \in Users, c \in CCs :
         follow(follow(network, u, c), u, c) = follow(network, u, c)
    /\ \A u \in Users :
         Cardinality(Range(network.adjacency_list[u])) = Len(network.adjacency_list[u])

IdempotentWitness ==
    \E u \in Users, c \in CCs :
        /\ network.adjacency_list[u] # <<>>
        /\ follow(network, u, c) # network

\* C5: when check_convergence() holds, every user's entry of users_found_best is
\* a timestep in 1 .. timestep, not the sentinel.
ConvergenceImpliesSatisfaction ==
    check_convergence =>
        \A u \in Users :
            /\ users_found_best[u] # NotFound
            /\ users_found_best[u] \in 1 .. timestep

ConvergedWitness ==
    /\ check_convergence
    /\ \E u, v \in Users : users_found_best[u] < users_found_best[v]

\* C6: an iterate() in which a searching user is recommended creator 0 sets the
\* user's users_found_best to the new timestep and drops the user from the
\* searching users, whether or not the follow was recorded.
RecommendationTriggeredTermination ==
    [][(timestep' = timestep + 1 /\ raised' = "none") =>
         \A u \in Range(id_searching_users) :
            recs'[u] = 0 =>
               /\ users_found_best'[u] = timestep'
               /\ u \notin Range(id_searching_users')]_vars

\* The cap blocked the follow of creator 0, and the search of the user ended.
BlockedButFoundWitness ==
    \E u \in DOMAIN recs :
        /\ recs[u] = 0
        /\ users_found_best[u] = timestep
        /\ ~is_following(network, u, 0)

\* recommend() gives every creator a nonzero probability.
AllCreatorsPossible == \A c \in CCs : RPositive(Probs[c + 1])

\* The platform of the run has converged, every users_found_best positive.
Converged ==
    /\ num_users >= 1
    /\ check_convergence
    /\ \A u \in Users : users_found_best[u] >= 1

\* C7: every creator has a nonzero probability in every state, and a run until
\* convergence under a fair draw ends converged, every users_found_best positive.
EventualConvergence == []AllCreatorsPossible /\ <>Converged

LateConvergenceWitness ==
    /\ Converged
    /\ num_users >= 2
    /\ timestep > MaxSteps

\* The parameters simulate() hands to Platform() are outside its contract.
InvalidParameters ==
    \/ sim.alphas = <<>>
    \/ sim.num_users <= 0
    \/ sim.num_CCs <= 0
    \/ sim.max_follows < 0

\* C8: a Platform built with an empty alphas, no user, no creator or a negative
\* cap ends in an error: simulate() never holds a usable one.
InvalidParametersFailFast ==
    (pc = "loop" /\ InvalidParameters) => raised # "none"

\* The keys of a finished entry of evolutionary_data (lines 133-135, 158).
SnapshotFields == {"probs", "num_followers", "num_followees", "user_satisfactions"}

\* C9: with an interval e > 0 the keys of evolutionary_data are the multiples of
\* e in 1 .. timestep, each entry holding the four fields; with e = 0 it is empty.
SnapshotSchedule ==
    raised = "none" =>
        IF evolution > 0
        THEN /\ DOMAIN evolutionary_data = {t \in 1 .. timestep : t % evolution = 0}
             /\ \A t \in DOMAIN evolutionary_data :
                    DOMAIN evolutionary_data[t] = SnapshotFields
        ELSE evolutionary_data = EmptyMap

SnapshotWitness ==
    /\ evolution >= 2
    /\ DOMAIN evolutionary_data # {}
    /\ timestep % evolution # 0

\* C10: with a budget of n steps the driver makes at most n calls of iterate(),
\* none on a converged platform, and stops early only once converged; without a
\* budget it stops exactly when check_convergence() holds; the reported
\* 'timesteps' is the platform's timestep and 'did_converge' its check_convergence().
DriverStoppingPolicy ==
    /\ [][timestep' = timestep + 1 =>
            /\ ~check_convergence
            /\ sim.num_steps # 0 => num_iterations < sim.num_steps]_vars
    /\ [](pc \in {"loop", "record"} => num_iterations = timestep)
    /\ [](pc = "record" =>
            IF sim.num_steps # 0
            THEN check_convergence \/ num_iterations = sim.num_steps
            ELSE check_convergence)
    /\ [](i - 1 \in DOMAIN results =>
            /\ results[i - 1].timesteps = timestep
            /\ results[i - 1].did_converge = check_convergence)

EarlyStopWitness ==
    /\ pc = "return"
    /\ sim.num_steps # 0
    /\ results[0].timesteps < sim.num_steps
    /\ results[0].did_converge

SearchingSetInvariant ==
    /\ Range(id_searching_users) = {u \in Users : users_found_best[u] = NotFound}
    /\ \A k \in 1 .. Len(id_searching_users) - 1 :
          id_searching_users[k] < id_searching_users[k + 1]

\* Two users are still searching, and a user between them is done.
SearchingGapWitness ==
    \E k \in 1 .. Len(id_searching_users) - 1 :
        /\ id_searching_users[k + 1] > id_searching_users[k] + 1
        /\ users_found_best[id_searching_users[k] + 1] = timestep
        /\ timestep >= 2

\* follow(u, c) is called with c not yet followed and approved by the decision
\* rule, and the cap test of line 66 fails.
CapBlocks(net, u, c) ==
    /\ ~is_following(net, u, c)
    /\ decide_follow(net.best_followed_CC[u], c)
    /\ ~within_max_follows(net, u)

\* C13: a follow(u, c) that the decision rule approves and the cap blocks leaves
\* the adjacency list, both counters and best_followed_CC as they were, so that
\* the rule approves the same (u, c) again on a later call.
CapBlockedFollowChangesNothing ==
    \A u \in Users, c \in CCs :
        CapBlocks(network, u, c) =>
            \E after \in {follow(network, u, c)} :
                /\ after.adjacency_list = network.adjacency_list
                /\ after.num_followers = network.num_followers
                /\ after.num_followees = network.num_followees
                /\ after.best_followed_CC = network.best_followed_CC
                /\ CapBlocks(after, u, c)

\* A user at the cap whom a better creator than the best followed is left.
CapBlockedWitness ==
    \E u \in Users, c \in CCs :
        /\ CapBlocks(network, u, c)
        /\ network.best_followed_CC[u] # None
        /\ timestep >= 1

\* C14: once users_found_best[u] is set, no iterate() changes it, nor the
\* adjacency list, num_followees or best_followed_CC of u, and u is not among
\* the searching users afterwards.
ConvergedUsersFrozen ==
    [][\A u \in Users :
         users_found_best[u] # NotFound =>
            /\ users_found_best'[u] = users_found_best[u]
            /\ network'.adjacency_list[u] = network.adjacency_list[u]
            /\ network'.num_followees[u] = network.num_followees[u]
            /\ network'.best_followed_CC[u] = network.best_followed_CC[u]
            /\ u \notin Range(id_searching_users')]_vars

\* A user done at an earlier timestep who does not follow creator 0 (the cap
\* blocked it), and a later iterate() in which another user was done.
FrozenUserWitness ==
    \E u, v \in Users :
        /\ users_found_best[u] # NotFound
        /\ users_found_best[u] < timestep
        /\ network.best_followed_CC[u] # 0
        /\ users_found_best[v] = timestep

\* The distribution that gives every creator the probability 1/num_CCs.
Uniform == [k \in 1 .. num_CCs |-> Rat[1, num_CCs]]

\* C15: with a single alpha and no follower yet, recommend() gives every creator
\* the probability 1/num_CCs; and the normalised weights of alpha = 0 are uniform
\* whatever the follower counts, so that alphas = [0] gives the uniform distribution.
UniformPrior ==
    /\ (num_alphas = 1 /\ \A c \in CCs : network.num_followers[c] = 0) => Probs = Uniform
    /\ \A k \in 1 .. num_alphas : alphas[k] = 0 => ProbChoice(alphas[k]) = Uniform
    /\ alphas = <<0>> => Probs = Uniform

\* alpha = 0 alone, after two calls, the creators with different numbers of followers.
UniformPriorWitness ==
    /\ alphas = <<0>>
    /\ timestep >= 2
    /\ \E c, d \in CCs : network.num_followers[c] > network.num_followers[d] + 1

\* C16: the snapshot of a timestep t holds the whole mixture that the draw of t
\* used (computed from the follower counts before the follows of t), and the
\* num_followers and num_followees left by the follows of t; no iterate()
\* changes a snapshot of an earlier timestep.
SnapshotContent ==
    [][/\ (timestep' = timestep + 1 /\ raised' = "none" /\ IsSnapshotStep(timestep')) =>
            /\ evolutionary_data'[timestep'].probs = Probs
            /\ evolutionary_data'[timestep'].num_followers = network'.num_followers
            /\ evolutionary_data'[timestep'].num_followees = network'.num_followees
       /\ \A t \in DOMAIN evolutionary_data :
            /\ t \in DOMAIN evolutionary_data'
            /\ evolutionary_data'[t] = evolutionary_data[t]]_vars

\* Two snapshots, the earlier with another distribution and other counts than
\* the later, which holds the counts of the network as it is.
SnapshotContentWitness ==
    /\ raised = "none"
    /\ {1, 2} \subseteq DOMAIN evolutionary_data
    /\ timestep = 2
    /\ evolutionary_data[1].probs # evolutionary_data[2].probs
    /\ evolutionary_data[1].num_followers # network.num_followers
    /\ evolutionary_data[1].num_followees # network.num_followees
    /\ evolutionary_data[2].num_followers = network.num_followers

\* C17: best_followed_CC[u] is None exactly when adjacency_list[u] is empty;
\* otherwise it is the smallest id of the list, which is its last element: the
\* list is strictly decreasing.
BestIsMinimumOfAdjacency ==
    \A u \in Users :
        \E adj \in {network.adjacency_list[u]}, best \in {network.best_followed_CC[u]} :
            /\ (best = None) <=> (adj = <<>>)
            /\ adj # <<>> =>
                  /\ best = adj[Len(adj)]
                  /\ \A c \in Range(adj) : best <= c
                  /\ \A k \in 1 .. Len(adj) - 1 : adj[k] > adj[k + 1]

\* A user who follows two creators, and a user who follows none.
BestIsMinimumWitness ==
    \E u, v \in Users :
        /\ Len(network.adjacency_list[u]) >= 2
        /\ network.adjacency_list[v] = <<>>
        /\ network.best_followed_CC[v] = None

\* C18: with max_follows = 0 (no cap), after every iterate() a user's
\* users_found_best is set exactly when the user follows creator 0; so that on
\* convergence every user's best_followed_CC is creator 0, num_followers[0] is
\* num_users, and the driver reports these.
UncappedFoundIffFollowsBest ==
    sim.max_follows = 0 =>
        /\ \A u \in Users :
              (users_found_best[u] # NotFound) <=> (network.best_followed_CC[u] = 0)
        /\ (num_users >= 1 /\ check_convergence) =>
              /\ \A u \in Users : network.best_followed_CC[u] = 0
              /\ network.num_followers[0] = num_users
        /\ \A k \in DOMAIN results :
              results[k].did_converge =>
                 /\ \A u \in Users : results[k].user_satisfaction[u] = 0
                 /\ results[k].num_followers[0] = num_users

\* A run without cap that converged, the users at different timesteps, one of
\* them after following another creator first.
UncappedConvergedWitness ==
    /\ pc = "return"
    /\ sim.max_follows = 0
    /\ results[0].did_converge
    /\ \E u, v \in Users :
          /\ users_found_best[u] < users_found_best[v]
          /\ Len(network.adjacency_list[v]) >= 2

\* C19: with max_follows >= 0 and num_CCs >= 1, after the first completed
\* iterate() every user has best_followed_CC set and num_followees >= 1, so that
\* neither line 135 of iterate() nor line 71 of simulate() reads the id of None.
SatisfactionAlwaysDefined ==
    (sim.max_follows >= 0 /\ sim.num_CCs >= 1) =>
        /\ raised # "AttributeError"
        /\ (timestep >= 1 /\ raised = "none") =>
              \A u \in Users :
                  /\ network.best_followed_CC[u] # None
                  /\ network.num_followees[u] >= 1
        /\ (pc = "record" /\ raised = "none") =>
              \A u \in Users : network.best_followed_CC[u] # None
        /\ \A k \in DOMAIN results, u \in Users : results[k].user_satisfaction[u] # None
        /\ \A t \in DOMAIN evolutionary_data :
              "user_satisfactions" \in DOMAIN evolutionary_data[t] =>
                  \A u \in Users : evolutionary_data[t].user_satisfactions[u] # None

\* A run cut short by its budget under a cap: the first iterate() took a
\* snapshot, and the report holds a user who does not follow creator 0.
SatisfactionReadWitness ==
    /\ pc = "return"
    /\ sim.max_follows >= 1
    /\ 1 \in DOMAIN evolutionary_data
    /\ ~results[0].did_converge
    /\ \E u \in Users : results[0].user_satisfaction[u] >= 1

\* The largest entry of a vector of timesteps.
MaxEntry(found) ==
    CHOOSE x \in {found[u] : u \in DOMAIN found} : \A u \in DOMAIN found : found[u] <= x

\* C20: with num_users >= 1, the iterate() that returns True leaves the timestep
\* at the largest entry of users_found_best, and the 'timesteps' the driver
\* reports for a converged run is that entry: the timestep at which the last
\* user was recommended creator 0.
ConvergenceTimeIsLastDiscovery ==
    /\ [][(num_users >= 1 /\ ~check_convergence /\ Len(id_searching_users') = 0) =>
            /\ timestep' = MaxEntry(users_found_best')
            /\ \E u \in Range(id_searching_users) :
                  recs'[u] = 0 /\ users_found_best'[u] = timestep']_vars
    /\ [](\A k \in DOMAIN results :
            (num_users >= 1 /\ results[k].did_converge) =>
                results[k].timesteps = MaxEntry(results[k].num_timestep_users_found_best))

\* A run of three calls that converged, a user being done at the first.
LastDiscoveryWitness ==
    /\ pc = "return"
    /\ results[0].did_converge
    /\ results[0].timesteps = 3
    /\ \E u \in Users : results[0].num_timestep_users_found_best[u] = 1

====
